---- MODULE Spec2Model ----
(***************************************************************************)
(* Model of esp8266uart.py: the AT command engine (sendcommand) that the   *)
(* entry points executecommand, querycommand, setcommand and the WIFI      *)
(* facade are built on, together with the UART it polls.                   *)
(*                                                                         *)
(* The module runs under MicroPython (it imports pyb).  Two typing rules   *)
(* of that interpreter decide which statements raise:                      *)
(*   bytes + str   concatenates (bytes accepts any buffer on the right),   *)
(*   str + bytes   raises TypeError.                                       *)
(* Values that can be either text or bytes are therefore records carrying  *)
(* their kind; their content is a sequence of one-character strings.       *)
(***************************************************************************)
EXTENDS Naturals, Integers, Sequences, FiniteSets, TLC

(* ---------------------------------------------------------------------- *)
(* Bounds of the model                                                     *)
(* ---------------------------------------------------------------------- *)

\* Lines the module emits in reply to one command.
MaxLines == 3

\* Lines the UART receive buffer holds before further input is lost.
RxCap == 2

\* Longest collection the model records exactly.  Only an endless stream
\* of lines reaches it; then the last slot is overwritten.
MaxOut == MaxLines + 1

\* cmd_timeout = 100: the iterations of sendcommand's first loop
Phase1Budget == 100

(* ---------------------------------------------------------------------- *)
(* Text and bytes values                                                   *)
(* ---------------------------------------------------------------------- *)

Str(cs) == [kind |-> "str", chars |-> cs]

Bytes(cs) == [kind |-> "bytes", chars |-> cs]

\* a + b is defined unless a is text and b is bytes.
CanConcat(a, b) == ~(a.kind = "str" /\ b.kind = "bytes")

\* a + b: the result has the kind of the left operand.
Concat(a, b) == [kind |-> a.kind, chars |-> a.chars \o b.chars]

Whitespace == {" ", "\t", "\n", "\r"}

\* bytes.rstrip(): drop trailing whitespace characters.
RECURSIVE rstrip(_)
rstrip(cs) ==
    IF cs = <<>> THEN <<>>
    ELSE IF cs[Len(cs)] \in Whitespace THEN rstrip(SubSeq(cs, 1, Len(cs) - 1))
    ELSE cs

CRLF == <<"\r", "\n">>

(* ---------------------------------------------------------------------- *)
(* Command catalogue (the entries the modelled operations use)             *)
(* ---------------------------------------------------------------------- *)

AT == <<"A", "T">>

CWMODE == <<"A", "T", "+", "C", "W", "M", "O", "D", "E">>

CWLAP == <<"A", "T", "+", "C", "W", "L", "A", "P">>

CWJAP == <<"A", "T", "+", "C", "W", "J", "A", "P">>

CWSAP == <<"A", "T", "+", "C", "W", "S", "A", "P">>

RST == <<"A", "T", "+", "R", "S", "T">>

\* CMDS_GENERIC['TEST_AT']
TEST_AT == Bytes(AT)

\* CMDS_GENERIC['RESET']
RESET == Bytes(RST)

\* CMDS_WIFI['CONNECT']
CONNECT == Bytes(CWJAP)

\* CMDS_WIFI['AP_SET_PARAMS']
AP_SET_PARAMS == Bytes(CWSAP)

\* CMDS_WIFI['MODE']
MODE == Bytes(CWMODE)

\* CMDS_WIFI['LIST_APS']
LIST_APS == Bytes(CWLAP)

\* Commands a caller hands to the engine's entry points: the two empty
\* commands, a text command and a catalogue (bytes) command.
Cmds == {Str(<<>>), Bytes(<<>>), Str(AT), TEST_AT}

(* ---------------------------------------------------------------------- *)
(* Lines the module can emit                                               *)
(* ---------------------------------------------------------------------- *)

OK == <<"O", "K">>

ERROR == <<"E", "R", "R", "O", "R">>

FAIL == <<"F", "A", "I", "L">>

\* the echo of the command and the three status lines
LineECHO == AT \o <<"\r">> \o CRLF

\* +CWLAP:(3,"ap",-60,"m",1), a well-formed line of an access point scan
LineBODY ==
    <<"+", "C", "W", "L", "A", "P", ":", "(", "3", ",", "\"", "a", "p",
      "\"", ",", "-", "6", "0", ",", "\"", "m", "\"", ",", "1", ")">> \o CRLF

LineOK == OK \o CRLF

LineERROR == ERROR \o CRLF

LineFAIL == FAIL \o CRLF

Lines == {LineECHO, LineBODY, LineOK, LineERROR, LineFAIL}

\* +CWMODE:1, +CWMODE:2 and +CWMODE:5, value lines of the mode query
ModeLine(d) == <<"+", "C", "W", "M", "O", "D", "E", ":", d>> \o CRLF

\* No AP and +CWJAP:"ap", value lines of the joined access point query
LineNOAP == <<"N", "o", " ", "A", "P">> \o CRLF

LineJAP ==
    <<"+", "C", "W", "J", "A", "P", ":", "\"", "a", "p", "\"">> \o CRLF

\* The lines the module can emit in reply to the command of an entry
\* point.  The engine's own entry points are given every line; a call of
\* the WIFI facade is given the echo, the body lines of its command and
\* OK.
LinesOf(e) ==
    IF e \in {"sendcommand", "executecommand", "querycommand", "setcommand"}
    THEN Lines
    ELSE IF e = "getmode"
    THEN {LineECHO, ModeLine("1"), ModeLine("5"), LineOK}
    ELSE IF e = "setaccesspointconfig"
    THEN {LineECHO, ModeLine("2"), LineOK}
    ELSE IF e = "getaccesspoint"
    THEN {LineECHO, LineNOAP, LineJAP, LineOK}
    ELSE {LineECHO, LineBODY, LineOK}

(* ---------------------------------------------------------------------- *)
(* State                                                                   *)
(* ---------------------------------------------------------------------- *)

VARIABLES
    pc,           \* "idle", "phase1", "drain", "done"
    entry,        \* the entry point of the invocation in progress
    cmd,          \* the command the caller passed to the entry point
    debug,        \* the debug argument
    args,         \* the other arguments of the call, a tuple of values
    sent,         \* the command sendcommand was called with, or NoCmd
    tx,           \* what uart.write was given in this invocation
    rx,           \* lines waiting in the UART receive buffer
    delivered,    \* lines the module has emitted in this invocation
    stale,        \* history: the lines that waited in the receive buffer
                  \* when the invocation began
    arrived,      \* history: the lines that arrived since it began
    output,       \* sendcommand's local list
    okay,         \* sendcommand's local flag
    cmd_timeout,  \* sendcommand's local iteration counter
    polls,        \* calls of uart.any() in this invocation
    outcome,      \* "none" while running, else "return" or the exception
    result        \* the value returned, NoResult unless outcome = "return"

vars == <<pc, entry, cmd, debug, args, sent, tx, rx, delivered, stale,
          arrived, output, okay, cmd_timeout, polls, outcome, result>>

NoResult == <<"-">>

NoCmd == Bytes(<<"-">>)

Init ==
    /\ pc = "idle"
    /\ entry = "none"
    /\ cmd = NoCmd
    /\ debug = FALSE
    /\ args = <<>>
    /\ sent = NoCmd
    /\ tx = <<>>
    /\ rx = <<>>
    /\ delivered = 0
    /\ stale = <<>>
    /\ arrived = <<>>
    /\ output = <<>>
    /\ okay = FALSE
    /\ cmd_timeout = 0
    /\ polls = 0
    /\ outcome = "none"
    /\ result = NoResult

(* ---------------------------------------------------------------------- *)
(* The UART                                                                *)
(* ---------------------------------------------------------------------- *)

\* Variant of Push: the line is put in front of the list.
PushFront(out, line) == <<line>> \o out

\* output.append(line).  The list is recorded exactly up to MaxOut lines.
Push(out, line) ==
    IF Len(out) < MaxOut THEN Append(out, line)
    ELSE [out EXCEPT ![MaxOut] = line]

\* The module emits one more line of its reply; it arrives in the receive
\* buffer at any moment of the invocation.
Deliver ==
    /\ pc \in {"phase1", "drain"}
    /\ delivered < MaxLines
    /\ \E line \in LinesOf(entry) :
        /\ rx' = Append(rx, line)
        /\ arrived' = Append(arrived, line)
    /\ delivered' = delivered + 1
    /\ UNCHANGED <<pc, entry, cmd, debug, args, sent, tx, stale, output,
                   okay, cmd_timeout, polls, outcome, result>>

\* The module emits a line of its reply to the command written, during
\* the invocation or late, after the invocation has ended; nothing empties
\* the receive buffer between invocations, so a late line waits there for
\* the next one.
DeliverLate ==
    /\ pc \in {"phase1", "drain", "done"}
    /\ tx # <<>>
    /\ Len(stale) + delivered < MaxLines
    /\ \E line \in LinesOf(entry) :
        /\ rx' = Append(rx, line)
        /\ arrived' = Append(arrived, line)
    /\ delivered' = delivered + 1
    /\ UNCHANGED <<pc, entry, cmd, debug, args, sent, tx, stale, output,
                   okay, cmd_timeout, polls, outcome, result>>

\* Lines of a module that never falls silent.
EndlessLines == {LineBODY, LineOK}

\* A module that keeps emitting lines for as long as it likes.  The receive
\* buffer holds RxCap lines; what arrives while it is full is lost.
DeliverEndless ==
    /\ pc \in {"phase1", "drain"}
    /\ Len(rx) < RxCap
    /\ \E line \in EndlessLines :
        /\ rx' = Append(rx, line)
        /\ arrived' = IF delivered < MaxLines THEN Append(arrived, line)
                      ELSE arrived
    /\ delivered' = IF delivered < MaxLines THEN delivered + 1 ELSE delivered
    /\ UNCHANGED <<pc, entry, cmd, debug, args, sent, tx, stale, output,
                   okay, cmd_timeout, polls, outcome, result>>

\* Variant of Consume: the line is looked at and left in the buffer.
Peek(buf) == buf

\* What uart.readline() leaves in the receive buffer: it consumes the line
\* it returns.
Consume(buf) == Tail(buf)

\* The count of uart.any() calls is recorded exactly up to CountCap, which
\* only an endless stream of lines reaches.
CountCap == Phase1Budget + MaxOut + 1

Bump(n) == IF n < CountCap THEN n + 1 ELSE n

(* ---------------------------------------------------------------------- *)
(* sendcommand                                                             *)
(* ---------------------------------------------------------------------- *)

\* The exception of the raise statement for an empty command: the message
\* "Unknown command '" + cmd + "'!" is built first, and building it fails
\* for a bytes command.
EmptyCommandRaise(c) ==
    IF CanConcat(Str(<<"'">>), c) THEN "CommandError" ELSE "TypeError"

\* Variant of Terminated: the line is ended with \n alone.
TerminatedLF(c) == Concat(c, Str(<<"\n">>))

\* cmd += '\r\n'
Terminated(c) == Concat(c, Str(CRLF))

\* From the call of sendcommand(c) to the entry of the first loop: the
\* locals are initialised, an empty command is rejected, any other command
\* is terminated with \r\n and written.
sendcommand(c) ==
    /\ sent' = c
    /\ output' = <<>>
    /\ okay' = FALSE
    /\ polls' = 0
    /\ delivered' = 0
    /\ stale' = rx
    /\ arrived' = <<>>
    /\ result' = NoResult
    /\ IF c.chars = <<>>
       THEN /\ outcome' = EmptyCommandRaise(c)
            /\ pc' = "done"
            /\ tx' = <<>>
            /\ cmd_timeout' = 0
       ELSE /\ outcome' = "none"
            /\ pc' = "phase1"
            /\ tx' = <<Terminated(c)>>
            /\ cmd_timeout' = Phase1Budget
    /\ UNCHANGED rx

\* An entry point raises before it reaches sendcommand.
RaiseBeforeSend(exc) ==
    /\ sent' = NoCmd
    /\ output' = <<>>
    /\ okay' = FALSE
    /\ polls' = 0
    /\ delivered' = 0
    /\ stale' = rx
    /\ arrived' = <<>>
    /\ outcome' = exc
    /\ result' = NoResult
    /\ pc' = "done"
    /\ tx' = <<>>
    /\ cmd_timeout' = 0
    /\ UNCHANGED rx

\* A call that never reaches sendcommand returns v.
ReturnBeforeSend(v) ==
    /\ sent' = NoCmd
    /\ output' = <<>>
    /\ okay' = FALSE
    /\ polls' = 0
    /\ delivered' = 0
    /\ stale' = rx
    /\ arrived' = <<>>
    /\ outcome' = "return"
    /\ result' = v
    /\ pc' = "done"
    /\ tx' = <<>>
    /\ cmd_timeout' = 0
    /\ UNCHANGED rx

\* Variant of Phase1Step: the loop is left as soon as OK has been read.
Phase1StepStopOnOk ==
    /\ pc = "phase1"
    /\ cmd_timeout > 0
    /\ polls' = Bump(polls)
    /\ IF rx # <<>>
       THEN /\ output' = Push(output, Head(rx))
            /\ rx' = Consume(rx)
            /\ okay' = (okay \/ rstrip(Head(rx)) = OK)
       ELSE UNCHANGED <<output, rx, okay>>
    /\ cmd_timeout' = cmd_timeout - 1
    /\ IF cmd_timeout' > 0 /\ ~okay'
       THEN UNCHANGED <<pc, outcome>>
       ELSE IF Len(output') = 0 /\ ~debug
            THEN pc' = "done" /\ outcome' = "NameError"
            ELSE pc' = "drain" /\ UNCHANGED outcome
    /\ UNCHANGED <<entry, cmd, debug, args, sent, tx, delivered, stale,
                   arrived, result>>

\* One iteration of "while cmd_timeout > 0", and on leaving the loop the
\* test for an unanswered command.  Its print evaluates elapsed_micros(start)
\* whatever debug is, and start is bound only when debug is set.
Phase1Step ==
    /\ pc = "phase1"
    /\ cmd_timeout > 0
    /\ polls' = Bump(polls)
    /\ IF rx # <<>>
       THEN /\ output' = Push(output, Head(rx))
            /\ rx' = Consume(rx)
            /\ okay' = (okay \/ rstrip(Head(rx)) = OK)
       ELSE UNCHANGED <<output, rx, okay>>
    /\ cmd_timeout' = cmd_timeout - 1
    /\ IF cmd_timeout' > 0
       THEN UNCHANGED <<pc, outcome>>
       ELSE IF Len(output') = 0 /\ ~debug
            THEN pc' = "done" /\ outcome' = "NameError"
            ELSE pc' = "drain" /\ UNCHANGED outcome
    /\ UNCHANGED <<entry, cmd, debug, args, sent, tx, delivered, stale,
                   arrived, result>>

\* One test of "while uart.any()": a waiting line is read, and when none
\* waits the loop ends and "if len(output > 0)" is evaluated.  It compares
\* a list with an integer, which raises TypeError, so that no statement
\* after it is ever executed.
DrainStep ==
    /\ pc = "drain"
    /\ polls' = Bump(polls)
    /\ IF rx # <<>>
       THEN /\ output' = Push(output, Head(rx))
            /\ rx' = Consume(rx)
            /\ okay' = (okay \/ rstrip(Head(rx)) = OK)
            /\ UNCHANGED <<pc, outcome>>
       ELSE /\ pc' = "done"
            /\ outcome' = "TypeError"
            /\ UNCHANGED <<output, rx, okay>>
    /\ UNCHANGED <<entry, cmd, debug, args, sent, tx, delivered, stale,
                   arrived, cmd_timeout, result>>

(* ---------------------------------------------------------------------- *)
(* joinargs                                                                *)
(* ---------------------------------------------------------------------- *)

IntArg(n) == [kind |-> "int", val |-> n]

Digits == <<"0", "1", "2", "3", "4", "5", "6", "7", "8", "9">>

\* str(n) for an integer
RECURSIVE Dec(_)
Dec(n) ==
    IF n < 0 THEN <<"-">> \o Dec(0 - n)
    ELSE IF n < 10 THEN <<Digits[n + 1]>>
    ELSE Dec(n \div 10) \o <<Digits[(n % 10) + 1]>>

\* a tuple value
Tuple(items) == [kind |-> "tuple", items |-> items]

\* str(v) for a value that is not text: the decimal digits of an integer,
\* and for a tuple its display, ('ap', 10) or ('ap',) for a single item.
RECURSIVE Repr(_)
RECURSIVE ReprItems(_)
Repr(v) ==
    IF v.kind = "int" THEN Dec(v.val)
    ELSE IF v.kind = "str" THEN <<"'">> \o v.chars \o <<"'">>
    ELSE IF Len(v.items) = 1 THEN <<"(">> \o Repr(v.items[1]) \o <<",", ")">>
    ELSE <<"(">> \o ReprItems(v.items) \o <<")">>

ReprItems(items) ==
    IF items = <<>> THEN <<>>
    ELSE IF Len(items) = 1 THEN Repr(items[1])
    ELSE Repr(items[1]) \o <<",", " ">> \o ReprItems(Tail(items))

\* the element appended to str_args for one argument
ArgBytes(arg) ==
    IF arg.kind = "str"
    THEN Concat(Concat(Bytes(<<"\"">>), arg), Bytes(<<"\"">>))
    ELSE Concat(Bytes(<<>>), Str(Repr(arg)))

\* b','.join(str_args)
RECURSIVE JoinComma(_)
JoinComma(items) ==
    IF items = <<>> THEN Bytes(<<>>)
    ELSE IF Len(items) = 1 THEN items[1]
    ELSE Concat(Concat(items[1], Bytes(<<",">>)), JoinComma(Tail(items)))

\* What "for arg in args" runs over after "if len(args) == 1 and
\* type(args) == tuple: args = args[0]": a single positional argument
\* takes the place of the argument tuple.
Iterated(star) == IF Len(star) = 1 THEN star[1] ELSE Tuple(star)

\* The values a for loop draws from v: the items of a tuple, the
\* characters of a text.
Elements(v) ==
    IF v.kind = "tuple" THEN v.items
    ELSE [i \in 1..Len(v.chars) |-> Str(<<v.chars[i]>>)]

\* joinargs(*star) raises TypeError when the loop is given an integer.
joinargsRaises(star) == Iterated(star).kind = "int"

\* joinargs(*star), star being the tuple of its positional arguments
joinargs(star) ==
    LET elems == Elements(Iterated(star))
    IN  JoinComma([i \in 1..Len(elems) |-> ArgBytes(elems[i])])

\* Argument lists passed to setcommand
ArgLists == {<<IntArg(1)>>, <<Str(<<"a", "p">>), IntArg(10)>>}

(* ---------------------------------------------------------------------- *)
(* Entry points                                                            *)
(* ---------------------------------------------------------------------- *)

\* A caller starts an invocation when none is running.
CanCall == pc \in {"idle", "done"}

\* sendcommand(c, debug=d) called directly
CallSend ==
    /\ CanCall
    /\ \E c \in Cmds, d \in BOOLEAN :
        /\ entry' = "sendcommand"
        /\ cmd' = c
        /\ debug' = d
        /\ args' = <<>>
        /\ sendcommand(c)

\* executecommand(c, debug=d): sendcommand(c)[1:-2]
executecommand ==
    /\ CanCall
    /\ \E c \in Cmds, d \in BOOLEAN :
        /\ entry' = "executecommand"
        /\ cmd' = c
        /\ debug' = d
        /\ args' = <<>>
        /\ sendcommand(c)

\* querycommand(c, debug=d): sendcommand(c + b'?')[1].rstrip()
querycommand ==
    /\ CanCall
    /\ \E c \in Cmds, d \in BOOLEAN :
        /\ entry' = "querycommand"
        /\ cmd' = c
        /\ debug' = d
        /\ args' = <<>>
        /\ IF CanConcat(c, Bytes(<<"?">>))
           THEN sendcommand(Concat(c, Bytes(<<"?">>)))
           ELSE RaiseBeforeSend("TypeError")

\* The body of setcommand(c, *a): joinargs is given the tuple a as its one
\* argument, and c + b'=' + args_str goes to sendcommand.
SetSend(c, a) ==
    IF CanConcat(c, Bytes(<<"=">>))
    THEN sendcommand(Concat(Concat(c, Bytes(<<"=">>)),
                            joinargs(<<Tuple(a)>>)))
    ELSE RaiseBeforeSend("TypeError")

\* setcommand(c, *args, debug=d): sendcommand(c + b'=' + joinargs(args))[1:-2]
setcommand ==
    /\ CanCall
    /\ \E c \in Cmds, d \in BOOLEAN, a \in ArgLists :
        /\ entry' = "setcommand"
        /\ cmd' = c
        /\ debug' = d
        /\ args' = a
        /\ SetSend(c, a)

\* WIFI.listallaccesspoints(): executecommand(CMDS_WIFI['LIST_APS']) comes
\* first, and the loop over its answer runs only if it returns.
listallaccesspoints ==
    /\ CanCall
    /\ entry' = "listallaccesspoints"
    /\ cmd' = LIST_APS
    /\ debug' = FALSE
    /\ args' = <<>>
    /\ sendcommand(LIST_APS)

(* ---------------------------------------------------------------------- *)
(* WIFI facade                                                             *)
(* ---------------------------------------------------------------------- *)

\* querycommand(c) as the facade calls it, debug left at its default
QuerySend(c) ==
    IF CanConcat(c, Bytes(<<"?">>))
    THEN sendcommand(Concat(c, Bytes(<<"?">>)))
    ELSE RaiseBeforeSend("TypeError")

\* a text of n characters
Pw(n) == Str([i \in 1..n |-> "p"])

SsidAp == Str(<<"a", "p">>)

\* Argument lists given to joinargs when it is called directly
JoinInputs == ArgLists \cup {<<>>, <<SsidAp>>}

\* joinargs(*a) called directly
Calljoinargs ==
    /\ CanCall
    /\ \E a \in JoinInputs :
        /\ entry' = "joinargs"
        /\ cmd' = NoCmd
        /\ debug' = FALSE
        /\ args' = a
        /\ IF joinargsRaises(a)
           THEN RaiseBeforeSend("TypeError")
           ELSE ReturnBeforeSend(joinargs(a))

\* Argument lists given to listaccesspoints
FilterArgs == {<<SsidAp>>, <<SsidAp, IntArg(10)>>}

\* WIFI.listaccesspoints(*a): setcommand(CMDS_WIFI['LIST_APS'], args,
\* debug=True) hands the tuple a over as one argument, not unpacked.
listaccesspoints ==
    /\ CanCall
    /\ \E a \in FilterArgs :
        /\ entry' = "listaccesspoints"
        /\ cmd' = LIST_APS
        /\ debug' = TRUE
        /\ args' = a
        /\ SetSend(LIST_APS, <<Tuple(a)>>)

\* WIFI.connect(ssid, psk):
\* setcommand(CMDS_WIFI['CONNECT'], ssid, psk, debug=True, timeout=20000)
connect ==
    /\ CanCall
    /\ entry' = "connect"
    /\ cmd' = CONNECT
    /\ debug' = TRUE
    /\ args' = <<SsidAp, Pw(8)>>
    /\ SetSend(CONNECT, <<SsidAp, Pw(8)>>)

\* the keys of WIFI_MODES
WIFI_MODES == {1, 2, 3}

\* Modes a caller gives to setmode
ModeArgs == {0, 1, 2, 3, 5}

\* WIFI.getmode(): int(querycommand(CMDS_WIFI['MODE']).split(b':')[1]) is
\* evaluated first; the test of the mode runs only if querycommand returns.
getmode ==
    /\ CanCall
    /\ entry' = "getmode"
    /\ cmd' = MODE
    /\ debug' = FALSE
    /\ args' = <<>>
    /\ QuerySend(MODE)

\* WIFI.setmode(mode): an unknown mode is refused before anything is sent,
\* a known one goes to setcommand(CMDS_WIFI['MODE'], mode).
setmode ==
    /\ CanCall
    /\ \E m \in ModeArgs :
        /\ entry' = "setmode"
        /\ cmd' = MODE
        /\ debug' = FALSE
        /\ args' = <<IntArg(m)>>
        /\ IF m \notin WIFI_MODES
           THEN RaiseBeforeSend("UnknownWIFIModeError")
           ELSE SetSend(MODE, <<IntArg(m)>>)

\* WIFI.getaccesspoint(): querycommand(CMDS_WIFI["CONNECT"]) comes first;
\* the comparison with b'No AP' runs only if it returns.
getaccesspoint ==
    /\ CanCall
    /\ entry' = "getaccesspoint"
    /\ cmd' = CONNECT
    /\ debug' = FALSE
    /\ args' = <<>>
    /\ QuerySend(CONNECT)


\* Arguments (ssid, password, channel, encrypt_proto) given to
\* setaccesspointconfig: two lists that satisfy its documentation, then
\* one fault each: password of 7 and of 65 characters, channel 0 and 15,
\* encryption protocol 1 and 5.
APConfigs ==
    { <<SsidAp, Pw(8), IntArg(1), IntArg(0)>>,
      <<SsidAp, Pw(64), IntArg(14), IntArg(4)>>,
      <<SsidAp, Pw(7), IntArg(1), IntArg(0)>>,
      <<SsidAp, Pw(65), IntArg(1), IntArg(0)>>,
      <<SsidAp, Pw(8), IntArg(0), IntArg(0)>>,
      <<SsidAp, Pw(8), IntArg(15), IntArg(0)>>,
      <<SsidAp, Pw(8), IntArg(1), IntArg(1)>>,
      <<SsidAp, Pw(8), IntArg(1), IntArg(5)>> }

\* WIFI.setaccesspointconfig(ssid, password, channel, encrypt_proto): its
\* first statement calls WIFI.getmode(), which calls
\* querycommand(CMDS_WIFI['MODE']); the checks of the arguments, the set
\* command and reset() run only if that call returns.
setaccesspointconfig ==
    /\ CanCall
    /\ \E a \in APConfigs :
        /\ entry' = "setaccesspointconfig"
        /\ cmd' = MODE
        /\ debug' = FALSE
        /\ args' = a
        /\ QuerySend(MODE)

Next ==
    \/ CallSend
    \/ executecommand
    \/ querycommand
    \/ setcommand
    \/ listallaccesspoints
    \/ Calljoinargs
    \/ listaccesspoints
    \/ connect
    \/ getmode
    \/ setmode
    \/ getaccesspoint
    \/ setaccesspointconfig
    \/ Phase1Step
    \/ DrainStep
    \/ Deliver

Spec == Init /\ [][Next]_vars

\* The engine called directly, against a module that may never fall silent.
\* The interpreter keeps executing sendcommand's loops, whence the fairness.
NextEndless ==
    \/ CallSend
    \/ Phase1Step
    \/ DrainStep
    \/ DeliverEndless

SpecEndless ==
    /\ Init
    /\ [][NextEndless]_vars
    /\ WF_vars(Phase1Step)
    /\ WF_vars(DrainStep)

\* The engine called directly, time after time, against a module whose
\* lines may arrive after the invocation they answer has ended.
NextStale ==
    \/ CallSend
    \/ Phase1Step
    \/ DrainStep
    \/ DeliverLate

SpecStale == Init /\ [][NextStale]_vars

TypeOK ==
    /\ pc \in {"idle", "phase1", "drain", "done"}
    /\ cmd_timeout \in 0..Phase1Budget
    /\ Len(output) <= MaxOut
    /\ okay \in BOOLEAN

(* ---------------------------------------------------------------------- *)
(* Properties                                                              *)
(* ---------------------------------------------------------------------- *)

Last(seq) == seq[Len(seq)]

Running == pc \in {"phase1", "drain"}

Done == pc = "done"

\* sendcommand was reached, with a command that is not empty
SentNonEmpty == sent # NoCmd /\ sent.chars # <<>>

StatusTokens == {OK, ERROR, FAIL}

\* echo line, body lines none of which is a status line, then OK
EchoBodyOk(out) ==
    /\ Len(out) >= 2
    /\ out[1] = LineECHO
    /\ Last(out) = LineOK
    /\ \A i \in 2..(Len(out) - 1) : rstrip(out[i]) \notin StatusTokens

\* C1: sendcommand and executecommand, given an empty command (text or
\* bytes), end with CommandError and have made no transport call: nothing
\* written, uart.any() never called, no line read.
C1_EmptyCommandRejected ==
    (Done /\ entry \in {"sendcommand", "executecommand"} /\ cmd.chars = <<>>)
        => (outcome = "CommandError" /\ tx = <<>> /\ polls = 0
            /\ output = <<>>)

\* C2: executecommand with a non-empty command, the module replying
\* exactly the echo line then OK, succeeds (it returns, nothing is raised).
C2_EchoOkSucceeds ==
    (Done /\ entry = "executecommand" /\ SentNonEmpty /\ delivered = 2
          /\ output = <<LineECHO, LineOK>>)
        => outcome = "return"

\* C3: when the last line collected by the first loop and the drain loop
\* strips to ERROR, the invocation ends with CommandError, whether or not
\* an OK line was collected before it.
C3_ErrorLineRaisesCommandError ==
    (Done /\ SentNonEmpty /\ output # <<>> /\ rstrip(Last(output)) = ERROR)
        => outcome = "CommandError"

\* C4: an invocation in the escalated wait, that is one whose collection
\* after the drain loop is not empty, ends in a line that is neither ERROR
\* nor OK, and holds no OK, ends only by CommandFailure (FAIL read) or by
\* returning (OK read, or the wait exhausted).
C4_EscalatedWaitOutcome ==
    (Done /\ SentNonEmpty /\ output # <<>> /\ ~okay
          /\ rstrip(Last(output)) \notin {ERROR, OK})
        => outcome \in {"CommandFailure", "return"}

\* C5 (as stated): whatever the module emits, finitely or endlessly many
\* lines at any moments, an invocation with a non-empty command terminates.
C5_AlwaysTerminates == Running ~> Done

\* C5 (amended): an invocation with a non-empty command terminates,
\* by returning or raising, provided the module eventually stops emitting
\* lines.
C5_TerminatesOnceSilent ==
    (<>[][~DeliverEndless]_vars) => (Running ~> Done)

\* C5 witness: an invocation has ended after its drain loop read a line.
C5_Witness ==
    /\ Done
    /\ SentNonEmpty
    /\ output # <<>>
    /\ polls > Phase1Budget + 1

\* C6: every call of querycommand, setcommand or executecommand that sends
\* its command ends, whatever the module replies, by returning or with one
\* of the typed errors.
C6_TypedOutcome ==
    (Done /\ entry \in {"querycommand", "setcommand", "executecommand"}
          /\ SentNonEmpty)
        => outcome \in {"return", "CommandError", "CommandFailure",
                        "UnknownWIFIModeError", "ResponseTooShort"}

\* C7: sendcommand with a non-empty command, debug set or not, when no
\* line arrived by the end of the drain loop, raises nothing and returns
\* the empty list.
C7_SilenceReturnsEmpty ==
    (Done /\ entry = "sendcommand" /\ SentNonEmpty /\ output = <<>>)
        => (outcome = "return" /\ result = <<>>)

\* C8: for a reply echo, b1..bn, OK, executecommand returns exactly
\* b1..bn in order.
C8_BodyReturned ==
    (Done /\ entry = "executecommand" /\ SentNonEmpty /\ EchoBodyOk(output))
        => (outcome = "return"
            /\ result = SubSeq(output, 2, Len(output) - 1))

\* C9: from the moment sendcommand has accepted a non-empty command, and
\* so before any line is read and on every outcome, exactly one write has
\* been made in the invocation, of the command followed by \r\n.
C9_WrittenOnce ==
    SentNonEmpty
        => (/\ Len(tx) = 1
            /\ tx[1].chars = sent.chars \o <<"\r", "\n">>
            /\ tx[1].kind = sent.kind)

\* C9 witness: an invocation with a non-empty command has ended after
\* reading two lines.
C9_Witness ==
    /\ Done
    /\ SentNonEmpty
    /\ Len(output) >= 2
    /\ Len(tx) = 1

\* C10: for a scan reply echo, N well-formed access point lines, OK,
\* listallaccesspoints raises nothing and returns N records.
C10_ScanRecords ==
    (Done /\ entry = "listallaccesspoints" /\ EchoBodyOk(output)
          /\ \A i \in 2..(Len(output) - 1) : output[i] = LineBODY)
        => (outcome = "return" /\ Len(result) = Len(output) - 2)

\* p is an initial segment of q
IsPrefix(p, q) == Len(p) <= Len(q) /\ SubSeq(q, 1, Len(p)) = p

\* some write of the invocation begins with the characters p
Written(p) == \E i \in 1..Len(tx) : IsPrefix(p, tx[i].chars)

\* the module answered the mode query with echo, +CWMODE:2, OK
ModeTwoReply == output = <<LineECHO, ModeLine("2"), LineOK>>

\* C11: with the module in mode 2, a text SSID, channel in 1..14 and an
\* encryption protocol of {0,2,3,4}, setaccesspointconfig ends with
\* CommandFailure without writing the AT+CWSAP= command when the password
\* has fewer than 8 or more than 64 characters, and writes that command
\* when it has 8 to 64.
C11_PasswordLength ==
    (Done /\ entry = "setaccesspointconfig" /\ ModeTwoReply
          /\ args[1].kind = "str"
          /\ args[3].val \in 1..14 /\ args[4].val \in {0, 2, 3, 4})
        => IF Len(args[2].chars) \in 8..64
           THEN Written(CWSAP \o <<"=">>)
           ELSE outcome = "CommandFailure" /\ ~Written(CWSAP \o <<"=">>)

\* C12: getmode returns the mode the module reports when it is 1, 2 or 3
\* and raises UnknownWIFIModeError for another integer such as 5; setmode
\* given a mode outside {1,2,3} raises UnknownWIFIModeError and writes
\* nothing.
C12_ModeChecked ==
    /\ (Done /\ entry = "getmode"
             /\ output = <<LineECHO, ModeLine("1"), LineOK>>)
           => (outcome = "return" /\ result = IntArg(1))
    /\ (Done /\ entry = "getmode"
             /\ output = <<LineECHO, ModeLine("5"), LineOK>>)
           => outcome = "UnknownWIFIModeError"
    /\ (Done /\ entry = "setmode" /\ args[1].val \notin {1, 2, 3})
           => (outcome = "UnknownWIFIModeError" /\ tx = <<>>)

\* C13: setmode(m) for m in {1,2,3}, answered by the module with the echo
\* and OK, raises nothing, so that the getmode() after it can return m.
C13_SetModeThenGetMode ==
    (Done /\ entry = "setmode" /\ args[1].val \in {1, 2, 3}
          /\ Len(output) >= 2 /\ output[1] = LineECHO
          /\ Last(output) = LineOK)
        => outcome = "return"

\* C14: getaccesspoint returns None, raising nothing, when the value line
\* of the reply is No AP, and for another value line returns the SSID
\* between the prefix and the closing quote.
C14_JoinedAccessPoint ==
    /\ (Done /\ entry = "getaccesspoint"
             /\ output = <<LineECHO, LineNOAP, LineOK>>)
           => (outcome = "return" /\ result = <<"None">>)
    /\ (Done /\ entry = "getaccesspoint"
             /\ output = <<LineECHO, LineJAP, LineOK>>)
           => (outcome = "return" /\ result = Bytes(<<"a", "p">>))

\* the checks the documentation of setaccesspointconfig lists
AllChecksPass(a) ==
    /\ a[1].kind = "str"
    /\ a[2].kind = "str"
    /\ Len(a[2].chars) \in 8..64
    /\ a[3].kind = "int" /\ a[3].val \in 1..14
    /\ a[4].kind = "int" /\ a[4].val \in {0, 2, 3, 4}

\* C18: with the module in mode 2, setaccesspointconfig given arguments
\* that fail a check (integer channel 0 or 15, encryption protocol 1 or 5,
\* password too short or too long) ends with CommandFailure and has
\* written neither AT+CWSAP= nor AT+RST; given arguments that pass all
\* checks it returns, the reset command written last.
C18_ChecksBeforeSet ==
    (Done /\ entry = "setaccesspointconfig" /\ ModeTwoReply)
        => IF AllChecksPass(args)
           THEN outcome = "return" /\ Written(RST)
           ELSE /\ outcome = "CommandFailure"
                /\ ~Written(CWSAP \o <<"=">>)
                /\ ~Written(RST)

\* The joined form the engine's documentation asks for: the arguments in
\* order, a comma between neighbours, a text between double quotes, an
\* integer in decimal.
RECURSIVE ExpectedJoin(_)
ExpectedJoin(a) ==
    IF a = <<>> THEN <<>>
    ELSE LET one == IF a[1].kind = "str"
                    THEN <<"\"">> \o a[1].chars \o <<"\"">>
                    ELSE Dec(a[1].val)
         IN  IF Len(a) = 1 THEN one
             ELSE one \o <<",">> \o ExpectedJoin(Tail(a))

\* C15: for every non-empty list of arguments, joinargs returns the
\* arguments in order, separated by single commas, texts between double
\* quotes and integers in decimal; and what setcommand, connect and
\* listaccesspoints send is the command, =, and that joined form.
C15_ArgumentsJoined ==
    /\ (Done /\ entry = "joinargs" /\ args # <<>>)
           => (outcome = "return" /\ result.chars = ExpectedJoin(args))
    /\ (entry \in {"setcommand", "connect", "listaccesspoints"}
             /\ SentNonEmpty /\ args # <<>>)
           => sent.chars = cmd.chars \o <<"=">> \o ExpectedJoin(args)

\* C16: an invocation that meets the condition of the escalated wait
\* (collection not empty, last line neither ERROR nor OK, no OK seen) and
\* reads neither OK nor FAIL afterwards raises nothing and returns every
\* line collected.
C16_SoftTimeoutReturns ==
    (Done /\ SentNonEmpty /\ output # <<>> /\ ~okay /\ rx = <<>>
          /\ rstrip(Last(output)) \notin {ERROR, OK, FAIL})
        => (outcome = "return" /\ result = output)

\* C17: reading OK in the first loop or the drain loop does not stop the
\* collection: the first loop still runs its whole budget, every poll that
\* finds a line after the OK appends it, and once OK was seen the
\* invocation polls in the first loop and the drain loop only (no
\* escalated wait follows).
C17_OkKeepsCollecting ==
    /\ [](pc = "drain" => polls >= Phase1Budget)
    /\ [][(Running /\ okay /\ rx # <<>> /\ polls' # polls)
              => (output' = Append(output, Head(rx)) /\ okay')]_vars
    /\ []((Done /\ okay) => polls <= Phase1Budget + Len(output) + 1)

\* C17 witness: an invocation has ended whose collection holds an OK line
\* followed by a line that is no status line.
C17_Witness ==
    /\ Done
    /\ SentNonEmpty
    /\ okay
    /\ Len(output) >= 2
    /\ rstrip(output[Len(output) - 1]) = OK
    /\ rstrip(Last(output)) \notin StatusTokens

\* C19 (as stated): at every point of an invocation the collection is a
\* prefix of the lines that arrived since the command was written.
C19_PrefixOfArrived == IsPrefix(output, arrived)

\* C19 (amended): at every point of an invocation the collection is a
\* prefix of the lines that waited in the receive buffer when the command
\* was written followed by the lines that arrived since, the rest of them
\* still waiting in the buffer; within an invocation the collection
\* changes only by a line being appended.
C19_PrefixOfWaitingAndArrived ==
    /\ [](output \o rx = stale \o arrived)
    /\ [][\/ output' = output
          \/ rx # <<>> /\ output' = Append(output, Head(rx))
          \/ CanCall /\ output' = <<>>]_vars

\* C19 witness: an invocation has ended that collected a line left over
\* from before and then a line that arrived during it.
C19_Witness ==
    /\ Done
    /\ stale # <<>>
    /\ arrived # <<>>
    /\ Len(output) = Len(stale) + Len(arrived)

\* C20 (as stated): no line that an earlier invocation left unread is in
\* the collection of a later one.
C20_OnlyOwnReply == output # <<>> => stale = <<>>

\* C20 (amended): the collection of an invocation holds only lines
\* emitted since its command was written provided the receive buffer was
\* empty at that moment; otherwise it begins with the lines left unread
\* before.
C20_OwnReplyIfBufferEmpty ==
    /\ stale = <<>> => IsPrefix(output, arrived)
    /\ (stale # <<>> /\ output # <<>>) => output[1] = stale[1]

\* C20 witness: an invocation has collected a line that arrived after the
\* previous invocation had ended.
C20_Witness ==
    /\ SentNonEmpty
    /\ stale # <<>>
    /\ output # <<>>
    /\ output[1] = stale[1]

====
